---------------------------- MODULE Spec2Model ----------------------------
(***************************************************************************)
(* Shark Bus remote emulator (joystick sketch) together with the Shark     *)
(* Power Module (SPM) behaviour laid down in the Shark Bus Communications  *)
(* document.  The sketch is the Shark Remote (SR): loop() reads three RC   *)
(* pulse channels, runs sharkStartup() on a LOW -> HIGH change of          *)
(* onOffState and sharkOnMode() in every iteration in which it is on.      *)
(* Time is counted in milliseconds.                                        *)
(***************************************************************************)
EXTENDS Integers, Sequences, FiniteSets

(***************************************************************************)
(* Bounds of the model: the pulse widths and pulse waits it enumerates.    *)
(***************************************************************************)
\* on/off channel pulse widths (microseconds) tried in each iteration
OnOffLost == 0
OnOffLow == 700
OnOffMid == 1200
OnOffHigh == 1800
OnOffPulses == {OnOffLost, OnOffLow, OnOffMid, OnOffHigh}
\* on/off channel pulse widths on either side of each threshold of loop()
OnOffEdgePulses == {499, 500, 999, 1000, 1500, 1501}
\* joystick channel pulse widths (microseconds) tried in each iteration
AxisLost == 0
AxisCentre == 1500
AxisMax == 2000
AxisPulses == {AxisLost, AxisMax}
\* the sweep of pulse widths of the packet specification
SweepLo == 990
SweepHi == 2010
SweepPulses == SweepLo..SweepHi
\* one channel swept while the other holds a fixed width, and both swept together
SweepPairs ==
    (SweepPulses \X {AxisLost, AxisCentre, AxisMax})
        \cup ({AxisLost, AxisCentre, AxisMax} \X SweepPulses)
        \cup {<<p, p>> : p \in SweepPulses}
        \cup {<<p, SweepLo + SweepHi - p>> : p \in SweepPulses}
\* milliseconds pulseIn takes on the on/off channel (within its timeout of
\* 25000 us, whether it returns a width or 0), and on a joystick channel that
\* has a pulse
OnOffWait == 24
AxisWait == 2
\* consecutive SR turns the bus may corrupt
MaxCorrupt == 3

(***************************************************************************)
(* Constants of the sketch and of the bus document.                        *)
(***************************************************************************)
HIGH == TRUE
LOW == FALSE
DeadbandNarrow == 20 - 10
Deadband == 20
DataLen == 12
WakeHoldShort == 298 - 100
WakeHold == 298
WakeSettle == 10
StartupGuardShort == 12 - 10
StartupGuard == 12
OffDelay == 200
LoopDelayMs == 16
StartupBytesShort == 11 - 1
StartupBytes == 11
OnModeBytesShort == 10 - 1
OnModeBytes == 10
TransmitFinished == 15
SRGeneralType == 0
SPMGeneralType == 1
SRPowerUpType == 4
SPMPowerUpType == 5
PowerDownFallback == 5000
SPMTurnMax == 10
CorruptLimit == 3
HandshakeTimeout == 1000
\* the largest value of a word (16 bits, unsigned)
WordMax == 65535
\* the largest joystick value, "Power base only recoginizes values in this range"
JoystickMax == 1023
\* the joystick values of the packing specification: one of speed and
\* direction takes every 10-bit value while the other is fixed, and both
\* take every value together
SplitFixed == {0, 1, 7, 8, 341, 512, 682, 1016, JoystickMax}
SplitPairs ==
    ((0..JoystickMax) \X SplitFixed)
        \cup (SplitFixed \X (0..JoystickMax))
        \cup {<<v, v>> : v \in 0..JoystickMax}
        \cup {<<v, JoystickMax - v>> : v \in 0..JoystickMax}
\* the pulse widths of the range specification: every value of a word
RangePulses == 0..WordMax
LivenessDeadline == 60
NominalCycle == 20
\* pulseIn without a timeout argument gives up after one second and returns 0
AxisTimeout == 1000

(***************************************************************************)
(* C arithmetic on the 8-bit and 16-bit unsigned types of the sketch.      *)
(***************************************************************************)
ToByte(x) == x % 256
ToWord(x) == x % 65536

RECURSIVE BitAndBits(_, _)
BitAndBits(a, b) ==
    IF a = 0 \/ b = 0 THEN 0
    ELSE (a % 2) * (b % 2) + 2 * BitAndBits(a \div 2, b \div 2)

\* a & b, each operand evaluated once
BitAnd(a, b) == CHOOSE r \in {BitAndBits(x, y) : x \in {a}, y \in {b}} : TRUE

RECURSIVE BitOrBits(_, _)
BitOrBits(a, b) ==
    IF a = 0 THEN b
    ELSE IF b = 0 THEN a
    ELSE (IF a % 2 = 1 \/ b % 2 = 1 THEN 1 ELSE 0) + 2 * BitOrBits(a \div 2, b \div 2)

\* a | b, each operand evaluated once
BitOr(a, b) == CHOOSE r \in {BitOrBits(x, y) : x \in {a}, y \in {b}} : TRUE

RECURSIVE Pow2(_)
Pow2(n) == IF n = 0 THEN 1 ELSE 2 * Pow2(n - 1)

Shr(a, n) == a \div Pow2(n)
Shl(a, n) == a * Pow2(n)

\* C integer division truncates toward zero
CDiv(a, b) == IF a >= 0 THEN a \div b ELSE -((-a) \div b)

\* Arduino constrain(x, a, b)
constrain(x, a, b) == IF x < a THEN a ELSE IF x > b THEN b ELSE x

\* Arduino map(x, in_min, in_max, out_min, out_max), in long arithmetic
map(x, in_min, in_max, out_min, out_max) ==
    CDiv((x - in_min) * (out_max - out_min), in_max - in_min) + out_min

(***************************************************************************)
(* Joystick scaling of sharkOnMode.                                        *)
(***************************************************************************)
\* "Woody's Deadband code": pot value 1..1023 to joystick value, 512 = stop
DeadbandValue(pot) ==
    IF pot > 512 + Deadband
    THEN ToWord(map(pot, 512 + Deadband, 1024, 513, 1023))
    ELSE IF pot < 512 - Deadband
    THEN ToWord(map(pot, 0, 512 - Deadband, 1, 511))
    ELSE 512

\* the direction pot value without the constrain
DirectionPotNoConstrain(pulse) ==
    ToWord(map(ToWord(pulse), 1000, 2000, 1, 1023))

DirectionPot(pulse) ==
    ToWord(map(ToWord(constrain(ToWord(pulse), 1100, 1900)), 1000, 2000, 1, 1023))

SpeedPot(pulse) ==
    ToWord(map(ToWord(constrain(ToWord(pulse), 1000, 2000)), 1000, 2000, 1023, 1))

(***************************************************************************)
(* Packet construction in the shared data[] buffer.                        *)
(***************************************************************************)
\* byte sum = 0; for (i = 0; i < n; i++) sum += data[i] & 0x7f;
RECURSIVE SumLow7SkipStart(_, _)
SumLow7SkipStart(d, n) ==
    IF n <= 1 THEN 0 ELSE ToByte(SumLow7SkipStart(d, n - 1) + BitAnd(d[n - 1], 127))

RECURSIVE SumLow7(_, _)
SumLow7(d, n) ==
    IF n = 0 THEN 0 ELSE ToByte(SumLow7(d, n - 1) + BitAnd(d[n - 1], 127))

\* data[9] = 0x7f - sum;
StartupChecksum(sum) == ToByte(127 - sum + 256)

\* data[8] = (255 - (sum & 127));
OnModeChecksumLow7Only(sum) == ToByte(127 - BitAnd(sum, 127))
OnModeChecksum(sum) == ToByte(255 - BitAnd(sum, 127))

\* the start byte of the power-up packet, data[0] = (0x74)
StartupStartByteShort == 116 - 16
StartupStartByte == 116

\* the power-up packet and its terminator, data[0..10]
StartupPacket(d) ==
    LET d1 == [d EXCEPT ![0] = StartupStartByte, ![1] = 130, ![2] = 133,
                        ![3] = 130, ![4] = 128, ![5] = 136, ![6] = 205,
                        ![7] = 160, ![8] = 128]
        sum == SumLow7(d1, 9)
    IN  [d1 EXCEPT ![9] = StartupChecksum(sum), ![10] = TransmitFinished]

\* data[6], "Value read during data capture, taken to be the 'on' value"
OnModeStatusByteHazard == 132 + 64
OnModeStatusByte == 132

\* the start byte of the general packet, data[0] = (0x60)
OnModeStartByteShort == 96 - 32
OnModeStartByte == 96

\* the general packet with the low bits of speed and direction exchanged
OnModePacketSwapped(d, spd, dir, maxSpd) ==
    LET d1 == [d EXCEPT
                 ![0] = OnModeStartByte,
                 ![1] = ToByte(BitOr(128, BitAnd(Shr(spd, 3), 127))),
                 ![2] = ToByte(BitOr(128, BitAnd(Shr(dir, 3), 127))),
                 ![3] = ToByte(BitOr(128, BitAnd(Shr(maxSpd, 1), 127))),
                 ![4] = ToByte(BitOr(BitOr(BitOr(128, Shl(BitAnd(maxSpd, 1), 6)),
                                           Shl(BitAnd(dir, 7), 3)),
                                     BitAnd(spd, 7))),
                 ![5] = 128,
                 ![6] = OnModeStatusByte,
                 ![7] = 128]
        sum == SumLow7(d1, 8)
    IN  [d1 EXCEPT ![8] = OnModeChecksum(sum), ![9] = TransmitFinished]

\* the general packet with data[5] left as the buffer holds it
OnModePacketStale(d, spd, dir, maxSpd) ==
    LET d1 == [d EXCEPT
                 ![0] = OnModeStartByte,
                 ![1] = ToByte(BitOr(128, BitAnd(Shr(spd, 3), 127))),
                 ![2] = ToByte(BitOr(128, BitAnd(Shr(dir, 3), 127))),
                 ![3] = ToByte(BitOr(128, BitAnd(Shr(maxSpd, 1), 127))),
                 ![4] = ToByte(BitOr(BitOr(BitOr(128, Shl(BitAnd(maxSpd, 1), 6)),
                                           Shl(BitAnd(spd, 7), 3)),
                                     BitAnd(dir, 7))),
                 ![6] = OnModeStatusByte,
                 ![7] = 128]
        sum == SumLow7(d1, 8)
    IN  [d1 EXCEPT ![8] = OnModeChecksum(sum), ![9] = TransmitFinished]

\* the general packet without the three low bits of speed in data[4]
OnModePacketCoarse(d, spd, dir, maxSpd) ==
    LET d1 == [d EXCEPT
                 ![0] = OnModeStartByte,
                 ![1] = ToByte(BitOr(128, BitAnd(Shr(spd, 3), 127))),
                 ![2] = ToByte(BitOr(128, BitAnd(Shr(dir, 3), 127))),
                 ![3] = ToByte(BitOr(128, BitAnd(Shr(maxSpd, 1), 127))),
                 ![4] = ToByte(BitOr(BitOr(128, Shl(BitAnd(maxSpd, 1), 6)),
                                     BitAnd(dir, 7))),
                 ![5] = 128,
                 ![6] = OnModeStatusByte,
                 ![7] = 128]
        sum == SumLow7(d1, 8)
    IN  [d1 EXCEPT ![8] = OnModeChecksum(sum), ![9] = TransmitFinished]

\* the general packet and its terminator, data[0..9]
OnModePacket(d, spd, dir, maxSpd) ==
    LET d1 == [d EXCEPT
                 ![0] = OnModeStartByte,
                 ![1] = ToByte(BitOr(128, BitAnd(Shr(spd, 3), 127))),
                 ![2] = ToByte(BitOr(128, BitAnd(Shr(dir, 3), 127))),
                 ![3] = ToByte(BitOr(128, BitAnd(Shr(maxSpd, 1), 127))),
                 ![4] = ToByte(BitOr(BitOr(BitOr(128, Shl(BitAnd(maxSpd, 1), 6)),
                                           Shl(BitAnd(spd, 7), 3)),
                                     BitAnd(dir, 7))),
                 ![5] = 128,
                 ![6] = OnModeStatusByte,
                 ![7] = 128]
        sum == SumLow7(d1, 8)
    IN  [d1 EXCEPT ![8] = OnModeChecksum(sum), ![9] = TransmitFinished]

\* for (i = 0; i < n; i++) sharkSerial.write(data[i]);
WriteBytes(d, n) == [i \in 1..n |-> d[i - 1]]


(***************************************************************************)
(* Packet layout of the bus document, as the power module decodes it.      *)
(***************************************************************************)
\* "The type is in bits 3-0, and the length is in bits 6-4 ... one less than
\* the data length"
PacketType(bytes) == BitAnd(bytes[1], 15)
PacketDataLen(bytes) == Shr(BitAnd(bytes[1], 112), 4) + 1

RECURSIVE SumBytes(_, _)
SumBytes(bytes, n) == IF n = 0 THEN 0 ELSE SumBytes(bytes, n - 1) + bytes[n]

\* "0x7F - ( least-significant 7 bits of ( sum of all data bytes and start byte ) )"
DocChecksum(bytes) == 127 - (SumBytes(bytes, PacketDataLen(bytes) + 1) % 128)

\* "The minimum allowable length for this packet is 6 data bytes" (types 00, 04)
MinDataLen(type) == IF type \in {SRGeneralType, SRPowerUpType} THEN 6 ELSE 1

\* "Bit 7 shall be CLEAR (0) for the first byte in a packet, and SET (1) for all
\* other bytes"
Bit7(b) == Shr(b, 7) % 2

\* a turn of one packet and the Transmit Finished byte, received correctly
SPMAccepts(bytes) ==
    /\ Len(bytes) >= 3
    /\ Bit7(bytes[1]) = 0
    /\ Len(bytes) = PacketDataLen(bytes) + 3
    /\ \A i \in 2..(Len(bytes) - 1) : Bit7(bytes[i]) = 1
    /\ BitAnd(bytes[Len(bytes) - 1], 127) = DocChecksum(bytes)
    /\ bytes[Len(bytes)] = TransmitFinished
    /\ PacketDataLen(bytes) >= MinDataLen(PacketType(bytes))

\* SR general packet byte 5 bit 0: "Power down / Sleep mode confirmation"
ConfirmBit(bytes) == BitAnd(bytes[7], 1)

\* "each transmitted byte carries 7 bits of actual information": the data
\* bytes of a packet, without bit 7
DecodeData(bytes) ==
    [i \in 1..PacketDataLen(bytes) |-> BitAnd(bytes[i + 1], 127)]

\* SR general packet bytes 0-3: joystick speed and direction (7 MSbs in bytes
\* 0 and 1, 3 LSbs in byte 3 bits 5-3 and 2-0), speed pot (7 MSbs in byte 2,
\* LSb in byte 3 bit 6)
DecodeSpeed(bytes) ==
    Shl(DecodeData(bytes)[1], 3) + (Shr(DecodeData(bytes)[4], 3) % 8)
DecodeDirection(bytes) ==
    Shl(DecodeData(bytes)[2], 3) + (DecodeData(bytes)[4] % 8)
DecodeSpeedPot(bytes) ==
    Shl(DecodeData(bytes)[3], 1) + (Shr(DecodeData(bytes)[4], 6) % 2)

\* SR general packet byte 5 bits 6, 5, 4: hazard light, left indicator and
\* right indicator requests
LightingRequests(bytes) == BitAnd(bytes[7], 112)

\* SR general packet byte 6 bit 4: headlight request
HeadlightRequest(bytes) == BitAnd(bytes[8], 16)

\* SR general packet byte 6 bits 3-0: operating mode, 00 = Drive mode
OperatingMode(bytes) == BitAnd(bytes[8], 15)

\* SR power-up packet byte 7: capabilities (bit 1 actuator control, bit 0
\* lighting control)
Capabilities(bytes) == BitAnd(bytes[9], 127)

(***************************************************************************)
(* State.                                                                  *)
(***************************************************************************)
VARIABLES
    pc,              \* where loop() stands
    onOffState,      \* boolean onOffState
    led,             \* pin 13
    dePin,           \* DE and RE of the MAX485: HIGH = transmit
    dataSwitch,      \* DG419: HIGH = battery voltage (wake) on the bus
    onOffVal,        \* word onOffVal
    directionPotVal, \* word directionPotVal
    speedPotVal,     \* word speedPotVal
    direction,       \* word direction
    speed,           \* word speed
    maxSpeed,        \* unsigned char maxSpeed
    data,            \* unsigned char data[12]
    wire,            \* the bytes of the SR's latest turn on the bus
    iterTurns,       \* packet types written so far in this iteration of loop()
    directionPulse,  \* what pulseIn(directionPin, HIGH) returned last
    speedPulse,      \* what pulseIn(speedPin, HIGH) returned last
    srUptime,        \* ms since onOffState went HIGH, up to HandshakeTimeout
    turnGap,         \* ms since the SR began its latest turn, up to LivenessDeadline
    spmPower,        \* power module: Off, AwaitingPeer, PowerUpSent, Handshaked
    spmFault,        \* power module fault flags, subset of {Transient, Limp}
    spmPdn,          \* power module has set "Power down now"
    spmBusy,         \* ms left of the power module's turn on the bus
    spmSilence,      \* ms since the power module last received a valid packet
    spmPending,      \* the SR turn the power module has not handled yet
    spmLast,         \* the power module's reply to the SR's latest turn
    spmCorrupt,      \* consecutive turns the power module received corrupted
    thermoPc,        \* thermo.ino: where its loop() stands
    requested,       \* thermo.ino: sensors asked to convert in this call of loop()
    tempC,           \* thermo.ino: t_left .. t_batt, the locals declared so far
    serialOut        \* thermo.ino: characters written to Serial in this call of loop()

srVars == <<pc, onOffState, led, dePin, dataSwitch, onOffVal, directionPotVal,
            speedPotVal, direction, speed, maxSpeed, data, wire, iterTurns,
            directionPulse, speedPulse, srUptime, turnGap>>
spmVars == <<spmPower, spmFault, spmPdn, spmBusy, spmSilence, spmPending,
             spmLast, spmCorrupt>>
thermoVars == <<thermoPc, requested, tempC, serialOut>>
vars == <<srVars, spmVars, thermoVars>>

\* thermo.ino after its setup(): loop() is entered, nothing was printed
ThermoInit ==
    /\ thermoPc = "reqLeft"
    /\ requested = {}
    /\ tempC = [s \in {} |-> 0]
    /\ serialOut = <<>>

NoReply == [type |-> TransmitFinished, pdn |-> FALSE]

\* setup(), and zero-initialised globals
Init ==
    /\ pc = "loop"
    /\ onOffState = LOW
    /\ led = LOW
    /\ dePin = LOW
    /\ dataSwitch = LOW
    /\ onOffVal = 0
    /\ directionPotVal = 0
    /\ speedPotVal = 0
    /\ direction = 0
    /\ speed = 0
    /\ maxSpeed = 0
    /\ data = [i \in 0..(DataLen - 1) |-> 0]
    /\ wire = <<>>
    /\ iterTurns = <<>>
    /\ directionPulse = 0
    /\ speedPulse = 0
    /\ srUptime = 0
    /\ turnGap = 0
    /\ spmPower = "Off"
    /\ spmFault = {}
    /\ spmPdn = FALSE
    /\ spmBusy = 0
    /\ spmSilence = 0
    /\ spmPending = <<>>
    /\ spmLast = NoReply
    /\ spmCorrupt = 0
    /\ ThermoInit

(***************************************************************************)
(* Passage of time, as the power module sees it.                           *)
(***************************************************************************)
\* "If communication is lost with the SR without the "power down now" bit set,
\* the SPM shall power down after 5000ms"
FallbackDue(t) ==
    spmPower # "Off" /\ ~spmPdn /\ spmSilence + t >= PowerDownFallback

PowerAfter(t) == IF FallbackDue(t) THEN "Off" ELSE spmPower

SilenceAfter(t) ==
    IF PowerAfter(t) = "Off" \/ spmPdn THEN 0
    ELSE IF spmSilence + t >= PowerDownFallback THEN PowerDownFallback
    ELSE spmSilence + t

BusyAfter(t) == IF spmBusy > t THEN spmBusy - t ELSE 0

\* "If 60ms elapse without the SPM receiving a valid general packet from the SR
\* (when not in bus idle mode), the SPM shall initiate an emergency stop process
\* by flagging a TRANSIENT fault.  This shall also be flagged as a LIMP fault."
\* Applied once the power-up sequence is over.
LivenessDue(t) ==
    spmPower = "Handshaked" /\ ~spmPdn /\ spmSilence + t >= LivenessDeadline

FaultAfter(t) ==
    IF PowerAfter(t) = "Off" THEN {}
    ELSE IF LivenessDue(t) THEN {"Transient", "Limp"}
    ELSE spmFault

Pass(t) ==
    /\ spmBusy' = BusyAfter(t)
    /\ spmSilence' = SilenceAfter(t)
    /\ spmPower' = PowerAfter(t)
    /\ spmFault' = FaultAfter(t)
    /\ spmCorrupt' = IF PowerAfter(t) = "Off" THEN 0 ELSE spmCorrupt
    /\ UNCHANGED <<spmPdn, spmPending, spmLast>>

\* the time since the SR began its latest turn, t ms later
GapAfter(t) ==
    IF turnGap + t >= LivenessDeadline THEN LivenessDeadline ELSE turnGap + t

\* the time pulseIn takes on a joystick channel: up to the end of the pulse,
\* or the whole timeout when it returns 0
AxisWaitOf(pulse) == IF pulse = 0 THEN AxisTimeout ELSE AxisWait

\* the time the SR has been on, t ms later
UptimeAfter(on, t) ==
    IF on = LOW THEN 0
    ELSE IF srUptime + t >= HandshakeTimeout THEN HandshakeTimeout
    ELSE srUptime + t


(***************************************************************************)
(* loop() of the sketch.                                                   *)
(***************************************************************************)
\* onOffState after the three-way on/off test, without the failsafe
OnOffNextNoFailsafe(val, state) ==
    IF val >= 500 /\ val < 1000 /\ state = HIGH THEN ~state
    ELSE IF val > 1500 /\ state = LOW THEN ~state
    ELSE state

\* onOffState after an on/off test that switches on at 1500 already
OnOffNextEager(val, state) ==
    IF val < 1000 /\ state = HIGH THEN ~state
    ELSE IF val >= 1500 /\ state = LOW THEN ~state
    ELSE IF val < 500 THEN LOW
    ELSE state

\* onOffState after the three-way on/off test of loop()
OnOffNext(val, state) ==
    IF val < 1000 /\ state = HIGH THEN ~state
    ELSE IF val > 1500 /\ state = LOW THEN ~state
    ELSE IF val < 500 THEN LOW
    ELSE state

\* onOffVal = pulseIn(onOffPin, HIGH, 25000); and the three-way on/off test
LoopOnOff(pulse) ==
    /\ pc = "loop"
    /\ onOffVal' = ToWord(pulse)
    /\ iterTurns' = <<>>
    /\ IF onOffVal' < 1000 /\ onOffState = HIGH
       THEN /\ onOffState' = OnOffNext(onOffVal', onOffState)
            /\ led' = onOffState'
            /\ dePin' = LOW
            /\ Pass(OnOffWait + OffDelay)
            /\ srUptime' = UptimeAfter(onOffState', OnOffWait + OffDelay)
            /\ turnGap' = GapAfter(OnOffWait + OffDelay)
            /\ pc' = "check"
       ELSE IF onOffVal' > 1500 /\ onOffState = LOW
       THEN /\ onOffState' = OnOffNext(onOffVal', onOffState)
            /\ led' = onOffState'
            /\ dePin' = dePin
            /\ Pass(OnOffWait)
            /\ srUptime' = 0
            /\ turnGap' = GapAfter(OnOffWait)
            /\ pc' = "startup"
       ELSE IF onOffVal' < 500
       THEN /\ onOffState' = OnOffNext(onOffVal', onOffState)
            /\ UNCHANGED <<led, dePin>>
            /\ Pass(OnOffWait)
            /\ srUptime' = UptimeAfter(onOffState', OnOffWait)
            /\ turnGap' = GapAfter(OnOffWait)
            /\ pc' = "check"
       ELSE /\ onOffState' = OnOffNext(onOffVal', onOffState)
            /\ UNCHANGED <<led, dePin>>
            /\ Pass(OnOffWait)
            /\ srUptime' = UptimeAfter(onOffState', OnOffWait)
            /\ turnGap' = GapAfter(OnOffWait)
            /\ pc' = "check"
    /\ UNCHANGED <<dataSwitch, directionPotVal, speedPotVal, direction, speed,
                   maxSpeed, data, wire, directionPulse, speedPulse>>
    /\ UNCHANGED thermoVars

\* if (onOffState == HIGH) { digitalWrite(led, onOffState); sharkOnMode(); }
LoopCheck ==
    /\ pc = "check"
    /\ IF onOffState = HIGH
       THEN led' = onOffState /\ pc' = "onMode"
       ELSE led' = led /\ pc' = "delay"
    /\ UNCHANGED <<onOffState, dePin, dataSwitch, onOffVal, directionPotVal,
                   speedPotVal, direction, speed, maxSpeed, data, wire, iterTurns,
                   directionPulse, speedPulse, srUptime, turnGap>>
    /\ UNCHANGED spmVars
    /\ UNCHANGED thermoVars

\* a delay at the end of loop() that never returns
LoopDelayForever ==
    /\ pc = "delay"
    /\ spmPending = <<>>
    /\ Pass(LoopDelayMs)
    /\ pc' = "delay"
    /\ UNCHANGED <<onOffState, led, dePin, dataSwitch, onOffVal, directionPotVal,
                   speedPotVal, direction, speed, maxSpeed, data, wire, iterTurns,
                   directionPulse, speedPulse>>
    /\ srUptime' = UptimeAfter(onOffState, LoopDelayMs)
    /\ turnGap' = GapAfter(LoopDelayMs)
    /\ UNCHANGED thermoVars

\* delay (16);
LoopDelay ==
    /\ pc = "delay"
    /\ spmPending = <<>>
    /\ Pass(LoopDelayMs)
    /\ pc' = "loop"
    /\ UNCHANGED <<onOffState, led, dePin, dataSwitch, onOffVal, directionPotVal,
                   speedPotVal, direction, speed, maxSpeed, data, wire, iterTurns,
                   directionPulse, speedPulse>>
    /\ srUptime' = UptimeAfter(onOffState, LoopDelayMs)
    /\ turnGap' = GapAfter(LoopDelayMs)
    /\ UNCHANGED thermoVars

(***************************************************************************)
(* sharkStartup().                                                         *)
(***************************************************************************)
\* digitalWrite(dePin, HIGH); digitalWrite(dataSwitch, HIGH);
SharkStartupWake ==
    /\ pc = "startup"
    /\ dePin' = HIGH
    /\ dataSwitch' = HIGH
    /\ pc' = "wake"
    /\ UNCHANGED <<onOffState, led, onOffVal, directionPotVal, speedPotVal,
                   direction, speed, maxSpeed, data, wire, iterTurns,
                   directionPulse, speedPulse, srUptime, turnGap>>
    /\ UNCHANGED spmVars
    /\ UNCHANGED thermoVars

\* the level of digitalWrite(dataSwitch, LOW) after the wake hold
WakeStillHeld == HIGH
WakeReleased == LOW

\* delay(298); digitalWrite(dataSwitch, LOW);  The power module powers up and
\* latches its power on while the wakeup signal is asserted.
SharkStartupRelease ==
    /\ pc = "wake"
    /\ dataSwitch' = WakeReleased
    /\ pc' = "settle"
    /\ spmBusy' = BusyAfter(WakeHold)
    /\ spmSilence' = SilenceAfter(WakeHold)
    /\ spmPower' = IF PowerAfter(WakeHold) = "Off" THEN "AwaitingPeer" ELSE spmPower
    /\ spmFault' = FaultAfter(WakeHold)
    /\ spmPdn' = IF PowerAfter(WakeHold) = "Off" THEN FALSE ELSE spmPdn
    /\ spmCorrupt' = IF PowerAfter(WakeHold) = "Off" THEN 0 ELSE spmCorrupt
    /\ UNCHANGED <<spmPending, spmLast>>
    /\ UNCHANGED <<onOffState, led, dePin, onOffVal, directionPotVal, speedPotVal,
                   direction, speed, maxSpeed, data, wire, iterTurns,
                   directionPulse, speedPulse>>
    /\ srUptime' = UptimeAfter(onOffState, WakeHold)
    /\ turnGap' = GapAfter(WakeHold)
    /\ UNCHANGED thermoVars

\* delay(10);
SharkStartupSettle ==
    /\ pc = "settle"
    /\ Pass(WakeSettle)
    /\ pc' = "powerUp"
    /\ UNCHANGED <<onOffState, led, dePin, dataSwitch, onOffVal, directionPotVal,
                   speedPotVal, direction, speed, maxSpeed, data, wire, iterTurns,
                   directionPulse, speedPulse>>
    /\ srUptime' = UptimeAfter(onOffState, WakeSettle)
    /\ turnGap' = GapAfter(WakeSettle)
    /\ UNCHANGED thermoVars

\* build start up packet; for (i = 0; i < 11; i++) sharkSerial.write(data[i]);
SharkStartupWrite ==
    /\ pc = "powerUp"
    /\ data' = StartupPacket(data)
    /\ wire' = WriteBytes(data', StartupBytes)
    /\ iterTurns' = Append(iterTurns, PacketType(wire'))
    /\ spmPending' = wire'
    /\ pc' = "guard"
    /\ UNCHANGED <<onOffState, led, dePin, dataSwitch, onOffVal, directionPotVal,
                   speedPotVal, direction, speed, maxSpeed, directionPulse,
                   speedPulse, srUptime>>
    /\ turnGap' = 0
    /\ UNCHANGED <<spmPower, spmFault, spmPdn, spmBusy, spmSilence, spmLast,
                   spmCorrupt>>
    /\ UNCHANGED thermoVars

\* delay(12);
SharkStartupDelay ==
    /\ pc = "guard"
    /\ spmPending = <<>>
    /\ Pass(StartupGuard)
    /\ pc' = "check"
    /\ UNCHANGED <<onOffState, led, dePin, dataSwitch, onOffVal, directionPotVal,
                   speedPotVal, direction, speed, maxSpeed, data, wire, iterTurns,
                   directionPulse, speedPulse>>
    /\ srUptime' = UptimeAfter(onOffState, StartupGuard)
    /\ turnGap' = GapAfter(StartupGuard)
    /\ UNCHANGED thermoVars

(***************************************************************************)
(* sharkOnMode().                                                          *)
(***************************************************************************)
\* digitalWrite(dePin, HIGH); both pulseIn, constrain, map and deadband blocks
SharkOnModeRead(dirPulse, spdPulse) ==
    /\ pc = "onMode"
    /\ dePin' = HIGH
    /\ directionPotVal' = DirectionPot(dirPulse)
    /\ direction' = DeadbandValue(directionPotVal')
    /\ speedPotVal' = SpeedPot(spdPulse)
    /\ speed' = DeadbandValue(speedPotVal')
    /\ Pass(AxisWaitOf(dirPulse) + AxisWaitOf(spdPulse))
    /\ pc' = "general"
    /\ UNCHANGED <<onOffState, led, dataSwitch, onOffVal, maxSpeed, data, wire,
                   iterTurns>>
    /\ directionPulse' = dirPulse
    /\ speedPulse' = spdPulse
    /\ srUptime' = UptimeAfter(onOffState, AxisWaitOf(dirPulse) + AxisWaitOf(spdPulse))
    /\ turnGap' = GapAfter(AxisWaitOf(dirPulse) + AxisWaitOf(spdPulse))
    /\ UNCHANGED thermoVars

\* maxSpeed = 255; build the packet; for (i = 0; i < 10; i++) sharkSerial.write(data[i]);
SharkOnModeWrite ==
    /\ pc = "general"
    /\ maxSpeed' = 255
    /\ data' = OnModePacket(data, speed, direction, maxSpeed')
    /\ wire' = WriteBytes(data', OnModeBytes)
    /\ iterTurns' = Append(iterTurns, PacketType(wire'))
    /\ spmPending' = wire'
    /\ pc' = "rx"
    /\ UNCHANGED <<onOffState, led, dePin, dataSwitch, onOffVal, directionPotVal,
                   speedPotVal, direction, speed, directionPulse, speedPulse,
                   srUptime>>
    /\ turnGap' = 0
    /\ UNCHANGED <<spmPower, spmFault, spmPdn, spmBusy, spmSilence, spmLast,
                   spmCorrupt>>
    /\ UNCHANGED thermoVars

\* the end of sharkOnMode without the digitalWrite
SharkOnModeEndKeep ==
    /\ pc = "rx"
    /\ pc' = "delay"
    /\ UNCHANGED <<onOffState, led, dePin, dataSwitch, onOffVal, directionPotVal,
                   speedPotVal, direction, speed, maxSpeed, data, wire, iterTurns,
                   directionPulse, speedPulse, srUptime, turnGap>>
    /\ UNCHANGED spmVars
    /\ UNCHANGED thermoVars

\* digitalWrite(dePin, LOW);
SharkOnModeEnd ==
    /\ pc = "rx"
    /\ dePin' = LOW
    /\ pc' = "delay"
    /\ UNCHANGED <<onOffState, led, dataSwitch, onOffVal, directionPotVal,
                   speedPotVal, direction, speed, maxSpeed, data, wire, iterTurns,
                   directionPulse, speedPulse, srUptime, turnGap>>
    /\ UNCHANGED spmVars
    /\ UNCHANGED thermoVars

(***************************************************************************)
(* The power module's turn, after the SR's Transmit Finished byte.         *)
(***************************************************************************)
\* "If the SPM receives 3 consecutive corrupt packets, it shall initiate an
\* emergency stop process by flagging a TRANSIENT fault. ... This shall also be
\* flagged as a LIMP fault."  n: consecutive corrupt packets, this one included
FaultAfterCorruptEarly(f, n) ==
    IF n >= CorruptLimit - 1 THEN {"Transient", "Limp"} ELSE f
FaultAfterCorrupt(f, n) ==
    IF n >= CorruptLimit THEN {"Transient", "Limp"} ELSE f

\* "Once communication with the SR is re-established, the TRANSIENT fault shall
\* be cleared, but the LIMP fault shall remain asserted."
FaultAfterValidClearAll(f) == f \ {"Transient", "Limp"}
FaultAfterValid(f) == f \ {"Transient"}

\* no reply: the module is off, or the turn was corrupted ("It shall not send
\* packets in response to corrupt received packets"; three in a row flag
\* TRANSIENT and LIMP), or it has not yet received the SR's power-up packet
SPMIgnore(corrupt, heard) ==
    /\ spmLast' = NoReply
    /\ spmSilence' = IF heard THEN 0 ELSE spmSilence
    /\ spmCorrupt' = IF corrupt THEN spmCorrupt + 1 ELSE IF heard THEN 0 ELSE spmCorrupt
    /\ spmFault' = IF corrupt THEN FaultAfterCorrupt(spmFault, spmCorrupt + 1)
                   ELSE IF heard THEN FaultAfterValid(spmFault)
                   ELSE spmFault
    /\ UNCHANGED <<spmPower, spmPdn, spmBusy>>

\* "it shall send its own Power-up information packet"; after power-up has been
\* completed: "flag a TRANSIENT fault, enter LIMP mode and enter the power-up
\* sequence again"
SPMPowerUpReply(ms) ==
    /\ spmLast' = [type |-> SPMPowerUpType, pdn |-> FALSE]
    /\ spmPower' = "PowerUpSent"
    /\ spmFault' = IF spmPower = "Handshaked" THEN {"Transient", "Limp"} ELSE spmFault
    /\ spmCorrupt' = 0
    /\ spmSilence' = 0
    /\ spmBusy' = ms
    /\ UNCHANGED spmPdn

\* the General Information reply, with its "Power down now" bit; "When the SPM
\* sees the SR's Power Down / Sleep Mode Confirm bit, it shall physically power
\* down"
SPMGeneralReply(ms, pdn, confirm) ==
    IF spmPdn /\ confirm
    THEN /\ spmPower' = "Off"
         /\ spmFault' = {}
         /\ spmPdn' = FALSE
         /\ spmLast' = NoReply
         /\ spmSilence' = 0
         /\ spmCorrupt' = 0
         /\ UNCHANGED spmBusy
    ELSE /\ spmPower' = "Handshaked"
         /\ spmFault' = FaultAfterValid(spmFault)
         /\ spmPdn' = (spmPdn \/ pdn)
         /\ spmLast' = [type |-> SPMGeneralType, pdn |-> spmPdn']
         /\ spmSilence' = 0
         /\ spmCorrupt' = 0
         /\ spmBusy' = ms

\* ok: the bus delivered the SR's bytes unaltered
SPMTurn(ok, pdn, ms) ==
    /\ spmPending # <<>>
    /\ ok \/ spmCorrupt < MaxCorrupt
    /\ spmPending' = <<>>
    /\ LET on == spmPower # "Off"
           heard == on /\ ok /\ SPMAccepts(spmPending)
           type == PacketType(spmPending)
       IN  IF heard /\ type = SRPowerUpType
           THEN SPMPowerUpReply(ms)
           ELSE IF heard /\ type = SRGeneralType /\ spmPower # "AwaitingPeer"
           THEN SPMGeneralReply(ms, pdn, ConfirmBit(spmPending) = 1)
           ELSE SPMIgnore(on /\ ~heard, heard)
    /\ UNCHANGED srVars
    /\ UNCHANGED thermoVars

(***************************************************************************)
(* The thermometer sketch, drivers/thermo.ino.                             *)
(***************************************************************************)
\* sensorLeft, sensorRight, sensorAir, sensorBox, sensorBattery
Sensors == {"left", "right", "air", "box", "battery"}

\* temperatures in sixteenths of a degree, the step of the sensor: -127
\* degrees (what getTempCByIndex returns for a sensor that does not answer),
\* -0.0625, 0, 25.4375 and 125 degrees
ThermoRaws == {-2032, -1, 0, 407, 2000}

Digit(n) == <<"0", "1", "2", "3", "4", "5", "6", "7", "8", "9">>[n + 1]

\* the decimal digits of an unsigned number, most significant first
RECURSIVE PrintNumber(_)
PrintNumber(n) ==
    IF n < 10 THEN <<Digit(n)>>
    ELSE Append(PrintNumber(n \div 10), Digit(n % 10))

\* Serial.print of a float: the sign, the value rounded to two decimals by
\* adding 0.005 and truncating, the integer part, a point and two digits
PrintFloat(raw) ==
    LET neg == raw < 0
        mag == IF neg THEN -raw ELSE raw
        number == mag * 625 + 50
        intPart == number \div 10000
        d1 == (number % 10000) \div 1000
        d2 == (number % 1000) \div 100
    IN  (IF neg THEN <<"-">> ELSE <<>>)
            \o PrintNumber(intPart) \o <<".", Digit(d1), Digit(d2)>>

\* sensorX.requestTemperatures();
RequestTemperatures(at, s, next) ==
    /\ thermoPc = at
    /\ requested' = requested \cup {s}
    /\ thermoPc' = next
    /\ UNCHANGED <<tempC, serialOut>>
    /\ UNCHANGED <<srVars, spmVars>>

\* float t_x = sensorX.getTempCByIndex(0);
GetTempCByIndex(at, s, next) ==
    /\ thermoPc = at
    /\ \E raw \in ThermoRaws :
          tempC' = [x \in DOMAIN tempC \cup {s} |->
                       IF x = s THEN raw ELSE tempC[x]]
    /\ thermoPc' = next
    /\ UNCHANGED <<requested, serialOut>>
    /\ UNCHANGED <<srVars, spmVars>>

\* Serial.print(t_x);
SerialPrintFloat(at, s, next) ==
    /\ thermoPc = at
    /\ serialOut' = serialOut \o PrintFloat(tempC[s])
    /\ thermoPc' = next
    /\ UNCHANGED <<requested, tempC>>
    /\ UNCHANGED <<srVars, spmVars>>

\* Serial.print of one character, written twice
SerialPrintCharTwice(at, c, next) ==
    /\ thermoPc = at
    /\ serialOut' = serialOut \o <<c, c>>
    /\ thermoPc' = next
    /\ UNCHANGED <<requested, tempC>>
    /\ UNCHANGED <<srVars, spmVars>>

\* Serial.print(";"); Serial.print('\n');
SerialPrintChar(at, c, next) ==
    /\ thermoPc = at
    /\ serialOut' = Append(serialOut, c)
    /\ thermoPc' = next
    /\ UNCHANGED <<requested, tempC>>
    /\ UNCHANGED <<srVars, spmVars>>

\* loop() returns, its locals are gone, and it is called again
ThermoLoopReturn ==
    /\ thermoPc = "return"
    /\ thermoPc' = "reqLeft"
    /\ requested' = {}
    /\ tempC' = [s \in {} |-> 0]
    /\ serialOut' = <<>>
    /\ UNCHANGED <<srVars, spmVars>>

(***************************************************************************)
(* Specifications.                                                         *)
(***************************************************************************)
Next ==
    \/ \E pulse \in OnOffPulses : LoopOnOff(pulse)
    \/ LoopCheck
    \/ LoopDelay
    \/ SharkStartupWake
    \/ SharkStartupRelease
    \/ SharkStartupSettle
    \/ SharkStartupWrite
    \/ SharkStartupDelay
    \/ \E dirPulse \in AxisPulses, spdPulse \in AxisPulses :
          SharkOnModeRead(dirPulse, spdPulse)
    \/ SharkOnModeWrite
    \/ SharkOnModeEnd
    \/ \E ok \in BOOLEAN, pdn \in BOOLEAN, ms \in {1, SPMTurnMax} :
          SPMTurn(ok, pdn, ms)

Spec == Init /\ [][Next]_vars

\* one step of the sketch, whatever the three RC channels deliver
SRStep ==
    \/ \E pulse \in OnOffPulses : LoopOnOff(pulse)
    \/ LoopCheck
    \/ LoopDelay
    \/ SharkStartupWake
    \/ SharkStartupRelease
    \/ SharkStartupSettle
    \/ SharkStartupWrite
    \/ SharkStartupDelay
    \/ \E dirPulse \in AxisPulses, spdPulse \in AxisPulses :
          SharkOnModeRead(dirPulse, spdPulse)
    \/ SharkOnModeWrite
    \/ SharkOnModeEnd

\* the power module receives the SR's bytes unaltered and handles them within
\* a millisecond
SPMStep == SPMTurn(TRUE, FALSE, 1)

NextLive == SRStep \/ SPMStep

\* the microcontroller keeps executing its program and the power module
\* keeps handling what it received: neither stops while it has a step to take
SpecLive == Init /\ [][NextLive]_vars /\ WF_vars(SRStep) /\ WF_vars(SPMStep)

\* the first session up to its first general packet, the joystick channels swept
NextSweep ==
    \/ LoopOnOff(OnOffHigh)
    \/ LoopCheck
    \/ SharkStartupWake
    \/ SharkStartupRelease
    \/ SharkStartupSettle
    \/ SharkStartupWrite
    \/ SharkStartupDelay
    \/ \E pair \in SweepPairs : SharkOnModeRead(pair[1], pair[2])
    \/ SharkOnModeWrite
    \/ SharkOnModeEnd
    \/ SPMTurn(TRUE, FALSE, 1)

SpecSweep == Init /\ [][NextSweep]_vars

\* the first session up to its first general packet, both joystick channels
\* reading every width a word can hold
NextRange ==
    \/ LoopOnOff(OnOffHigh)
    \/ LoopCheck
    \/ SharkStartupWake
    \/ SharkStartupRelease
    \/ SharkStartupSettle
    \/ SharkStartupWrite
    \/ SharkStartupDelay
    \/ pc = "onMode" /\ \E p \in RangePulses : SharkOnModeRead(p, p)
    \/ SharkOnModeWrite
    \/ SharkOnModeEnd
    \/ SPMTurn(TRUE, FALSE, 1)

SpecRange == Init /\ [][NextRange]_vars

\* loop() with the on/off pulse on either side of each threshold, the joystick
\* centred and the bus delivering every turn
NextOnOff ==
    \/ \E pulse \in OnOffEdgePulses : LoopOnOff(pulse)
    \/ LoopCheck
    \/ LoopDelay
    \/ SharkStartupWake
    \/ SharkStartupRelease
    \/ SharkStartupSettle
    \/ SharkStartupWrite
    \/ SharkStartupDelay
    \/ SharkOnModeRead(AxisCentre, AxisCentre)
    \/ SharkOnModeWrite
    \/ SharkOnModeEnd
    \/ SPMTurn(TRUE, FALSE, 1)

SpecOnOff == Init /\ [][NextOnOff]_vars

\* sharkOnMode after its two deadband blocks, in the first session, with speed
\* and direction holding any of the joystick values of SplitPairs
InitSplit ==
    /\ pc = "general"
    /\ onOffState = HIGH
    /\ led = HIGH
    /\ dePin = HIGH
    /\ dataSwitch = LOW
    /\ onOffVal = OnOffHigh
    /\ directionPotVal = 0
    /\ speedPotVal = 0
    /\ \E pair \in SplitPairs : speed = pair[1] /\ direction = pair[2]
    /\ maxSpeed = 0
    /\ data = StartupPacket([i \in 0..(DataLen - 1) |-> 0])
    /\ wire = WriteBytes(data, StartupBytes)
    /\ iterTurns = <<SRPowerUpType>>
    /\ directionPulse = 0
    /\ speedPulse = 0
    /\ srUptime = 0
    /\ turnGap = 0
    /\ spmPower = "PowerUpSent"
    /\ spmFault = {}
    /\ spmPdn = FALSE
    /\ spmBusy = 0
    /\ spmSilence = 0
    /\ spmPending = <<>>
    /\ spmLast = [type |-> SPMPowerUpType, pdn |-> FALSE]
    /\ spmCorrupt = 0
    /\ ThermoInit

NextSplit ==
    \/ SharkOnModeWrite
    \/ SharkOnModeEnd
    \/ SPMTurn(TRUE, FALSE, 1)

SpecSplit == InitSplit /\ [][NextSplit]_vars

\* the statements of thermo.ino's loop(), in their order
NextThermo ==
    \/ RequestTemperatures("reqLeft", "left", "reqRight")
    \/ RequestTemperatures("reqRight", "right", "reqAir")
    \/ RequestTemperatures("reqAir", "air", "reqBox")
    \/ RequestTemperatures("reqBox", "box", "reqBattery")
    \/ RequestTemperatures("reqBattery", "battery", "readLeft")
    \/ GetTempCByIndex("readLeft", "left", "readRight")
    \/ GetTempCByIndex("readRight", "right", "readAir")
    \/ GetTempCByIndex("readAir", "air", "readBox")
    \/ GetTempCByIndex("readBox", "box", "readBattery")
    \/ GetTempCByIndex("readBattery", "battery", "printLeft")
    \/ SerialPrintFloat("printLeft", "left", "sep1")
    \/ SerialPrintChar("sep1", ";", "printRight")
    \/ SerialPrintFloat("printRight", "right", "sep2")
    \/ SerialPrintChar("sep2", ";", "printAir")
    \/ SerialPrintFloat("printAir", "air", "sep3")
    \/ SerialPrintChar("sep3", ";", "printBox")
    \/ SerialPrintFloat("printBox", "box", "sep4")
    \/ SerialPrintChar("sep4", ";", "printBattery")
    \/ SerialPrintFloat("printBattery", "battery", "newline")
    \/ SerialPrintChar("newline", "\n", "return")
    \/ ThermoLoopReturn

SpecThermo == Init /\ [][NextThermo]_vars

TypeOK ==
    /\ pc \in {"loop", "check", "delay", "startup", "wake", "settle", "powerUp",
               "guard", "onMode", "general", "rx"}
    /\ onOffState \in BOOLEAN /\ led \in BOOLEAN
    /\ dePin \in BOOLEAN /\ dataSwitch \in BOOLEAN
    /\ onOffVal \in 0..65535
    /\ \A i \in 0..(DataLen - 1) : data[i] \in 0..255
    /\ spmBusy \in 0..SPMTurnMax
    /\ spmSilence \in 0..PowerDownFallback


(***************************************************************************)
(* Properties.                                                             *)
(***************************************************************************)
\* the power module has sent its power-up packet since it powered up
SPMHasSentPowerUp == spmPower \in {"PowerUpSent", "Handshaked"}

\* the sum of the low seven bits of the first n bytes, without wrapping
RECURSIVE Low7Sum(_, _)
Low7Sum(bytes, n) ==
    IF n = 0 THEN 0 ELSE Low7Sum(bytes, n - 1) + BitAnd(bytes[n], 127)

\* C1: while the SR is on and the power module has not yet sent its power-up
\* packet, every iteration of loop() transmits the SR power-up packet.
C1_PowerUpRetry ==
    (pc = "delay" /\ onOffState = HIGH /\ ~SPMHasSentPowerUp)
        => \E i \in 1..Len(iterTurns) : iterTurns[i] = SRPowerUpType

\* C2: the SR puts a general packet (type 0) on the bus only after the power
\* module has sent its power-up packet.
C2_HandshakeOrdering ==
    (pc = "rx" /\ PacketType(wire) = SRGeneralType) => SPMHasSentPowerUp

\* C3: in every packet the SR transmits, the low seven bits of the checksum
\* byte equal 0x7F - ((start byte + data bytes) & 0x7F).
C3_Checksum ==
    wire # <<>> =>
        BitAnd(wire[Len(wire) - 1], 127)
            = 127 - (SumBytes(wire, Len(wire) - 2) % 128)

\* a general packet whose 8-bit running sum wrapped has been transmitted
C3_Witness ==
    /\ pc = "rx"
    /\ PacketType(wire) = SRGeneralType
    /\ Low7Sum(wire, Len(wire) - 2) >= 256

\* C4: in every turn the SR writes, the start byte and the Transmit Finished
\* byte have bit 7 clear and every byte between them has bit 7 set.
C4_Bit7Framing ==
    wire # <<>> =>
        /\ Bit7(wire[1]) = 0
        /\ \A i \in 2..(Len(wire) - 1) : Bit7(wire[i]) = 1
        /\ Bit7(wire[Len(wire)]) = 0

\* a general packet whose checksum value is 0, so that only bit 7 is set in
\* its checksum byte, has been transmitted
C4_Witness ==
    /\ pc = "rx"
    /\ PacketType(wire) = SRGeneralType
    /\ wire[Len(wire) - 1] = 128

\* C5: the start byte carries the packet type in bits 3-0 and the number of
\* data bytes minus one in bits 6-4, and that many data bytes lie between it
\* and the checksum byte: type 4 with 8 data bytes after sharkStartup's write,
\* type 0 with 7 data bytes after sharkOnMode's write.
C5_StartByte ==
    wire # <<>> =>
        LET type == BitAnd(wire[1], 15)
            count == (Shr(wire[1], 4) % 8) + 1
        IN  /\ Len(wire) = 1 + count + 1 + 1
            /\ pc = "guard" => (type = SRPowerUpType /\ count = 8)
            /\ pc = "rx" => (type = SRGeneralType /\ count = 7)

\* both kinds of packet have been written in one session
C5_Witness ==
    /\ pc = "rx"
    /\ iterTurns = <<SRPowerUpType, SRGeneralType>>
    /\ Len(wire) = OnModeBytes

\* C6: every turn of the SR ends with the Transmit Finished byte 0x0F, and no
\* earlier byte of the turn is a Transmit Finished byte.
C6_TurnTermination ==
    wire # <<>> =>
        /\ wire[Len(wire)] = TransmitFinished
        /\ \A i \in 1..(Len(wire) - 1) : wire[i] # TransmitFinished

\* the SR has completed a power-up turn and a general turn in one iteration
C6_Witness ==
    /\ pc = "delay"
    /\ Len(iterTurns) = 2
    /\ wire[Len(wire)] = TransmitFinished

C8_NoBytesDuringWake ==
    /\ pc \in {"powerUp", "guard", "general", "rx"} => dataSwitch = LOW
    /\ dataSwitch = HIGH => (iterTurns = <<>> /\ spmPending = <<>>)

\* the power-up packet has been written after a wake pulse, dataSwitch LOW
C8_Witness ==
    /\ pc = "guard"
    /\ PacketType(wire) = SRPowerUpType
    /\ dataSwitch = LOW

\* C9: the general packet the SR sends next after the power module's general
\* packet carried "Power down now" has the confirm bit (byte 5 bit 0) set, and
\* the bit is set in no other general packet.
C9_PowerDownConfirm ==
    (pc = "rx" /\ spmPending # <<>>) =>
        ((ConfirmBit(wire) = 1) <=> (spmLast.type = SPMGeneralType /\ spmLast.pdn))

\* C10: the SR sends no power-up packet while the power module is powered and
\* handshaked.
C10_NoPowerUpAfterHandshake ==
    ~(/\ spmPending # <<>>
      /\ PacketType(spmPending) = SRPowerUpType
      /\ spmPower = "Handshaked")

\* the SR's only indicator, pin 13, is written with onOffState and nothing else;
\* it indicates a fault when it shows anything but the on/off state
MajorFaultIndicated == led # onOffState

\* C11: when the SR has been on for 1000 ms and the power module has not sent
\* it a general packet, the SR indicates a major communications fault.
C11_HandshakeTimeoutFault ==
    (/\ pc = "delay"
     /\ onOffState = HIGH
     /\ srUptime >= HandshakeTimeout
     /\ spmPower # "Handshaked") => MajorFaultIndicated

\* C12: the SR's power-up packet advertises no capability, and every general
\* packet it sends has the hazard, left indicator, right indicator and
\* headlight request bits clear and the operating mode Drive (0).
C12_CapabilitySuppression ==
    wire # <<>> =>
        /\ PacketType(wire) = SRPowerUpType => Capabilities(wire) = 0
        /\ PacketType(wire) = SRGeneralType =>
               /\ LightingRequests(wire) = 0
               /\ HeadlightRequest(wire) = 0
               /\ OperatingMode(wire) = 0

\* a general packet has been sent in an iteration after the one of the
\* power-up packet, and the power module has answered it
C12_Witness ==
    /\ pc = "delay"
    /\ iterTurns = <<SRGeneralType>>
    /\ spmLast.type = SPMGeneralType
    /\ Capabilities(WriteBytes(StartupPacket(data), StartupBytes)) = 0

\* a step in which the power module handles the SR turn it has received
SPMTurnStep == spmPending # <<>> /\ spmPending' = <<>>

C16_OneTurnPerCycle ==
    pc = "delay" =>
        IF onOffState = HIGH
        THEN /\ Len(iterTurns) = 1
             /\ iterTurns[1] = SRGeneralType => SPMHasSentPowerUp
        ELSE iterTurns = <<>>

\* C17: every byte of a general packet is what sharkOnMode builds in an empty
\* buffer from the direction and speed pulses read in the same iteration and
\* from constants.
C17_FreshPacket ==
    pc = "rx" =>
        wire = WriteBytes(OnModePacket([i \in 0..(DataLen - 1) |-> 0],
                                       DeadbandValue(SpeedPot(speedPulse)),
                                       DeadbandValue(DirectionPot(directionPulse)),
                                       255),
                          OnModeBytes)

\* a general packet has just been written into the buffer that held the
\* power-up packet, in a session that follows a completed one
C17_Witness ==
    /\ pc = "rx"
    /\ iterTurns = <<SRPowerUpType, SRGeneralType>>
    /\ spmPending = wire
    /\ spmPower = "Handshaked"
    /\ directionPulse # speedPulse

\* C18: in an iteration whose on/off pulse reads below 500, onOffState is LOW
\* after the on/off test, sharkStartup and sharkOnMode are not entered, and no
\* byte is transmitted.
C18_OnOffFailsafe ==
    (pc # "loop" /\ onOffVal < 500) =>
        /\ onOffState = LOW
        /\ pc \in {"check", "delay"}
        /\ iterTurns = <<>>

\* the on/off pulse was lost in the iteration after one in which the power
\* module received a general packet: the SR was on and is now off
C18_Witness ==
    /\ pc = "check"
    /\ onOffVal = OnOffLost
    /\ onOffState = LOW
    /\ spmPower = "Handshaked"
    /\ spmSilence = LoopDelayMs + OnOffWait + OffDelay

\* C19: a general packet sent in an iteration in which pulseIn returned 0 on
\* the direction or speed channel carries the neutral value 512 for that axis.
C19_NeutralOnSignalLoss ==
    pc = "rx" =>
        /\ directionPulse = 0 => DecodeDirection(wire) = 512
        /\ speedPulse = 0 => DecodeSpeed(wire) = 512

\* the long product of map() stays within 32 bits
MapFits(x, in_min, out_min, out_max) ==
    LET product == (x - in_min) * (out_max - out_min)
    IN  product >= -2147483647 - 1 /\ product <= 2147483647

\* constrain, map and the deadband map of one axis, evaluated without
\* truncation, stay within a word and their products within a long
AxisNoWrap(pulse, lo, hi, out_min, out_max, potVal, value) ==
    LET pot == map(constrain(pulse, lo, hi), 1000, 2000, out_min, out_max)
    IN  /\ MapFits(constrain(pulse, lo, hi), 1000, out_min, out_max)
        /\ pot \in 0..WordMax
        /\ pot = potVal
        /\ pot > 512 + Deadband =>
               /\ MapFits(pot, 512 + Deadband, 513, 1023)
               /\ map(pot, 512 + Deadband, 1024, 513, 1023) = value
        /\ pot < 512 - Deadband =>
               /\ MapFits(pot, 0, 1, 511)
               /\ map(pot, 0, 512 - Deadband, 1, 511) = value

\* C20: for every pulse width a word can hold, speed and direction lie in
\* 1..1023, the general packet carries them in full, and no value of the
\* constrain and map computations wraps.
C20_JoystickRange ==
    pc \in {"general", "rx"} =>
        /\ directionPulse \in 0..WordMax /\ speedPulse \in 0..WordMax
        /\ direction \in 1..1023
        /\ speed \in 1..1023
        /\ AxisNoWrap(directionPulse, 1100, 1900, 1, 1023, directionPotVal, direction)
        /\ AxisNoWrap(speedPulse, 1000, 2000, 1023, 1, speedPotVal, speed)
        /\ pc = "rx" => (DecodeDirection(wire) = direction /\ DecodeSpeed(wire) = speed)

\* the general packet of the longest pulse a word can hold has been written
C20_Witness ==
    /\ pc = "rx"
    /\ directionPulse = WordMax
    /\ speedPulse = WordMax
    /\ speedPotVal = 1

\* C21: in the general packet, data byte 0 with bits 5-3 of byte 3 gives back
\* speed, data byte 1 with bits 2-0 of byte 3 gives back direction, data byte
\* 2 with bit 6 of byte 3 gives back the speed pot value, and byte 3 holds
\* the three low parts side by side, for every speed and direction in 0..1023.
C21_SplitEncoding ==
    (wire # <<>> /\ PacketType(wire) = SRGeneralType) =>
        LET b0 == wire[2]
            b1 == wire[3]
            b2 == wire[4]
            b3 == wire[5]
        IN  /\ BitOr(Shl(BitAnd(b0, 127), 3), BitAnd(Shr(b3, 3), 7)) = speed
            /\ BitOr(Shl(BitAnd(b1, 127), 3), BitAnd(b3, 7)) = direction
            /\ BitOr(Shl(BitAnd(b2, 127), 1), BitAnd(Shr(b3, 6), 1)) = maxSpeed
            /\ BitAnd(b3, 127)
                   = 64 * (maxSpeed % 2) + 8 * (speed % 8) + (direction % 8)

\* a general packet of full speed value and zero direction value, a pair no
\* pulse produces, has been written
C21_Witness ==
    /\ pc = "rx"
    /\ speed = JoystickMax
    /\ direction = 0
    /\ PacketType(wire) = SRGeneralType

\* the deadband of one axis: 512 exactly for a pot value in 492..532, the
\* upper side above it, the lower side below it
DeadbandSides(potVal, value) ==
    /\ value = 512 <=> potVal \in 492..532
    /\ potVal > 532 => value \in 513..1023
    /\ potVal < 492 => value \in 1..511

\* C22: on each axis the value is 512 if and only if the mapped pot value lies
\* in 492..532, a pot value above 532 gives a value in 513..1023 and one below
\* 492 a value in 1..511, and the general packet transmits these values.
C22_Deadband ==
    pc \in {"general", "rx"} =>
        /\ DeadbandSides(directionPotVal, direction)
        /\ DeadbandSides(speedPotVal, speed)
        /\ pc = "rx" =>
               /\ BitOr(Shl(BitAnd(wire[3], 127), 3), BitAnd(wire[5], 7)) = direction
               /\ BitOr(Shl(BitAnd(wire[2], 127), 3), BitAnd(Shr(wire[5], 3), 7)) = speed

\* a general packet has been written with the direction pot value on the upper
\* edge and the speed pot value on the lower edge of the deadband
C22_Witness ==
    /\ pc = "rx"
    /\ directionPotVal = 532
    /\ speedPotVal = 492
    /\ direction = 512
    /\ speed = 512

\* C26: every packet the SR writes has as many data bytes as its start byte
\* says, at least 6 for the general packet (type 0) and 8 for the power-up
\* packet (type 4), and the document's receiver accepts it.
C26_MinimumLengths ==
    wire # <<>> =>
        LET count == Len(wire) - 3
        IN  /\ PacketType(wire) \in {SRGeneralType, SRPowerUpType}
            /\ count = PacketDataLen(wire)
            /\ PacketType(wire) = SRGeneralType => count >= 6
            /\ PacketType(wire) = SRPowerUpType => count = 8
            /\ SPMAccepts(wire)

\* the power module has accepted the power-up packet and the general packet
\* of one iteration and answered the latter
C26_Witness ==
    /\ pc = "delay"
    /\ iterTurns = <<SRPowerUpType, SRGeneralType>>
    /\ spmLast.type = SPMGeneralType
    /\ spmCorrupt = 0

\* C28: dePin is HIGH where the SR writes bytes and until the write is over,
\* and LOW at the end of every iteration of loop().
C28_Transceiver ==
    /\ pc \in {"powerUp", "guard", "general", "rx"} => dePin = HIGH
    /\ pc \in {"delay", "loop"} => dePin = LOW

\* the iteration that ran sharkStartup has ended with dePin LOW
C28_Witness ==
    /\ pc = "delay"
    /\ iterTurns = <<SRPowerUpType, SRGeneralType>>
    /\ dePin = LOW
    /\ onOffState = HIGH

\* C23: onOffState goes from LOW to HIGH only in the on/off test of an
\* iteration whose pulse is above 1500 and from HIGH to LOW only in that of
\* an iteration whose pulse is below 1000; a pulse in 1000..1500 leaves
\* it unchanged and is followed by no wake pulse and no power-up packet in
\* the iteration.
C23_Hysteresis ==
    [][/\ (onOffState = LOW /\ onOffState' = HIGH) =>
              (pc = "loop" /\ onOffVal' > 1500)
       /\ (onOffState = HIGH /\ onOffState' = LOW) =>
              (pc = "loop" /\ onOffVal' < 1000)
       /\ (pc = "loop" /\ pc' # "loop" /\ onOffVal' \in 1000..1500) =>
              onOffState' = onOffState
       /\ (pc' # "loop" /\ onOffVal' \in 1000..1500) =>
              /\ dataSwitch' = LOW
              /\ pc' \in {"check", "onMode", "general", "rx", "delay"}
              /\ \A i \in 1..Len(iterTurns') : iterTurns'[i] # SRPowerUpType]_vars

\* the SR stayed on through an iteration whose on/off pulse was exactly 1000
\* and wrote its general packet only
C23_Witness ==
    /\ pc = "rx"
    /\ onOffVal = 1000
    /\ onOffState = HIGH
    /\ iterTurns = <<SRGeneralType>>

\* C24: after setup() the SR is off with the wake signal released and nothing
\* transmitted; until it has transmitted, it is on or asserts the wake signal
\* only in an iteration whose on/off pulse is above 1500; and the first bytes
\* it transmits are the power-up packet and the Transmit Finished byte.
C24_StartsOff ==
    /\ (onOffState = LOW /\ dataSwitch = LOW /\ dePin = LOW /\ wire = <<>>)
    /\ [][/\ (wire' = <<>> /\ (onOffState' = HIGH \/ dataSwitch' = HIGH)) =>
                 (onOffVal' > 1500 /\ pc' \in {"startup", "wake", "settle", "powerUp"})
          /\ (wire = <<>> /\ wire' # <<>>) =>
                 /\ pc = "powerUp"
                 /\ onOffVal > 1500
                 /\ wire' = <<116, 130, 133, 130, 128, 136, 205, 160, 128, 141, 15>>]_vars

\* the first turn of the SR is on the bus: sharkOnMode has not run yet
C24_Witness ==
    /\ pc = "guard"
    /\ maxSpeed = 0
    /\ wire # <<>>
    /\ onOffVal > 1500

\* C25: every change of onOffState from LOW to HIGH enters sharkStartup, which
\* asserts the wake signal once, holds it for 280..320 ms and releases it
\* before the power-up packet is written; the wake signal is asserted nowhere
\* else.
C25_WakePulse ==
    [][/\ (onOffState = LOW /\ onOffState' = HIGH) => pc' = "startup"
       /\ (pc # "startup" /\ pc' = "startup") =>
              (onOffState = LOW /\ onOffState' = HIGH)
       /\ (pc = "startup" /\ pc' # "startup") =>
              (dataSwitch = LOW /\ dataSwitch' = HIGH)
       /\ (dataSwitch = LOW /\ dataSwitch' = HIGH) =>
              (pc = "startup" /\ onOffState = HIGH /\ srUptime = 0)
       /\ (dataSwitch = HIGH /\ dataSwitch' = LOW) =>
              (srUptime' - srUptime \in 280..320 /\ pc' = "settle")
       /\ pc' \in {"powerUp", "guard"} => dataSwitch' = LOW]_vars

\* the wake pulse of a session that is not the first has just been released
C25_Witness ==
    /\ pc = "settle"
    /\ dataSwitch = LOW
    /\ srUptime \in 280..320
    /\ wire # <<>>

\* C29: while the SR is on, each general turn begins 20 ms after the previous
\* turn of the SR began.
C29_CyclePeriod ==
    pc = "general" => turnGap = NominalCycle

\* C27: every iteration of loop() comes to an end for every input: the SR
\* reaches the transmit decision of loop() again and again.
C27_NoUnboundedWait ==
    /\ []<>(pc = "check")
    /\ []<>(pc = "loop")

\* an iteration with every wait at its longest has come to its end: wake
\* pulse and power-up packet, both joystick channels timed out
C27_Witness ==
    /\ pc = "delay"
    /\ iterTurns = <<SRPowerUpType, SRGeneralType>>
    /\ directionPulse = 0
    /\ speedPulse = 0
    /\ turnGap = 0

\* the number of times a character occurs in a sequence of characters
CountOf(seq, c) == Cardinality({i \in 1..Len(seq) : seq[i] = c})

\* the fields of a sequence of characters, cut at each occurrence of c
RECURSIVE FieldsOf(_, _)
FieldsOf(seq, c) ==
    IF seq = <<>> THEN << <<>> >>
    ELSE LET rest == FieldsOf(Tail(seq), c)
         IN  IF Head(seq) = c THEN << <<>> >> \o rest
             ELSE << <<Head(seq)>> \o Head(rest) >> \o Tail(rest)

DigitValue(c) == CHOOSE d \in 0..9 : Digit(d) = c

RECURSIVE NumberOf(_)
NumberOf(ds) ==
    IF ds = <<>> THEN 0
    ELSE NumberOf(SubSeq(ds, 1, Len(ds) - 1)) * 10 + DigitValue(ds[Len(ds)])

\* a field without its sign
Unsigned(f) == IF f # <<>> /\ f[1] = "-" THEN Tail(f) ELSE f

\* a field is a decimal number with two decimals: an optional sign, one or
\* more digits, a point, two digits
IsReading(f) ==
    LET u == Unsigned(f)
        n == Len(u)
    IN  /\ n >= 4
        /\ u[n - 2] = "."
        /\ \A i \in (1..n) \ {n - 2} : \E d \in 0..9 : u[i] = Digit(d)

\* the value of such a field, in hundredths of a degree
ReadingOf(f) ==
    LET u == Unsigned(f)
        n == Len(u)
        h == NumberOf(SubSeq(u, 1, n - 3)) * 100 + NumberOf(SubSeq(u, n - 1, n))
    IN  IF f[1] = "-" THEN -h ELSE h

\* a temperature in sixteenths of a degree, rounded to hundredths, halves
\* away from zero
Hundredths(raw) ==
    IF raw < 0 THEN -((-raw * 625 + 50) \div 100) ELSE (raw * 625 + 50) \div 100

\* C30: in every call of thermo.ino's loop() a sensor is read only after all
\* five sensors were asked to convert, and printing starts only after all
\* five were read; no newline is written before the end of loop(), and what
\* loop() has written when it returns is one line: five decimal numbers, the
\* readings of left, right, air, box and battery in this order, with a ";"
\* between them and one newline at the end.
C30_ReportFormat ==
    /\ DOMAIN tempC # {} => requested = Sensors
    /\ serialOut # <<>> => DOMAIN tempC = Sensors
    /\ thermoPc # "return" => CountOf(serialOut, "\n") = 0
    /\ thermoPc = "return" =>
          /\ CountOf(serialOut, "\n") = 1
          /\ serialOut[Len(serialOut)] = "\n"
          /\ LET fields == FieldsOf(SubSeq(serialOut, 1, Len(serialOut) - 1), ";")
                 order == <<"left", "right", "air", "box", "battery">>
             IN  /\ Len(fields) = 5
                 /\ \A k \in 1..5 :
                       /\ IsReading(fields[k])
                       /\ ReadingOf(fields[k]) = Hundredths(tempC[order[k]])

\* loop() is about to return after the readings -127, 25.4375, -0.0625, 0 and
\* 125 degrees, and has written "-127.00;25.44;-0.06;0.00;125.00" and a newline
C30_Witness ==
    /\ thermoPc = "return"
    /\ tempC["left"] = -2032
    /\ tempC["right"] = 407
    /\ tempC["air"] = -1
    /\ tempC["box"] = 0
    /\ tempC["battery"] = 2000
    /\ serialOut = <<"-", "1", "2", "7", ".", "0", "0", ";",
                     "2", "5", ".", "4", "4", ";",
                     "-", "0", ".", "0", "6", ";",
                     "0", ".", "0", "0", ";",
                     "1", "2", "5", ".", "0", "0", "\n">>

=============================================================================
